---- MODULE Spec2Model ----
(***************************************************************************)
(* State machine of KolamAI/static/main.js: the upload controller, the     *)
(* results presenter, the canvas renderer, the requestAnimationFrame-      *)
(* driven animation loop and the two export actions.                       *)
(*                                                                         *)
(* Every action is one run-to-completion browser task: a DOM event         *)
(* handler, the continuation of an awaited fetch, or one browser animation *)
(* frame (which runs every callback pending at that moment with the same   *)
(* timestamp).  The upload controls are operable while the upload screen   *)
(* is active, the playback controls and the "new upload" control while the *)
(* results screen is active; the export handlers carry their own guard.    *)
(***************************************************************************)
EXTENDS Integers, Sequences, FiniteSets

\* ---------------------------------------------------------------- bounds
MaxUploads == 2      \* upload requests issued in one behaviour
MaxExports == 1      \* SVG export requests issued in one behaviour
MaxTime    == 150    \* last animation-frame timestamp explored
MaxLiveUploads == 1  \* the same in SpecLive and SpecAnySpeed

Gaps == {25, 50}     \* time between two browser animation frames

\* ------------------------------------------------------- program constants
frameDelay == 50

Null == 0            \* null (kolamData, animationId)

PlayGlyph  == "play"     \* the triangle shown while paused or complete
PauseGlyph == "pause"    \* the double bar shown while playing

\* Pattern records the analysis service may return (result.data).  A path
\* is a sequence of [x, y] points.
Payloads ==
  << [id |-> "abc123",
      paths |-> << << <<0, 0>>, <<10, 0>> >>, << <<5, 5>> >> >>],
     [id |-> "empty",
      paths |-> << >>],
     [id |-> "r3",
      paths |-> << << >>, << <<1, 1>>, <<2, 2>>, <<3, 3>> >> >>] >>

DataIds == 1..Len(Payloads)

ErrorMessages == {"bad input"}

\* Values the speed slider delivers.  The animation state's speed is a
\* positive multiplier; animate() divides frameDelay by it.
Speeds == {1, 2}

VARIABLES
  kolamData,        \* Null or the index in Payloads of the live record
  animationState,   \* [isPlaying, currentPathIndex, currentPointIndex,
                    \*  speed, animationId]
  lastFrameTime,
  rafQueue,         \* handles of the frame callbacks the browser holds
  now,              \* timestamp of the latest browser animation frame
  canvas,           \* [dots: record whose dots are drawn (Null: none),
                    \*  segments: sequence of <<start, end>> drawn]
  playIcon,
  screen,           \* "upload" or "results"
  uploadStatusHidden,
  presented,        \* record whose fields the results view shows
  uploadsInFlight,  \* POST /analyze requests awaiting their response
  uploadsIssued,
  uploadsOverlapped, \* some request in flight has shared its time in flight
                    \* with another upload request
  exportsInFlight,  \* POST /export-svg requests: sequence of the record
                    \* index whose paths were sent
  exportsIssued,
  lastMoveTime,     \* timestamp of the latest animate() call that drew a
                    \* segment or advanced a cursor (-1: none yet)
  out,              \* what the latest task emitted: requests, alerts,
                    \* downloads
  task              \* the event the latest task handled, with its input

vars == << kolamData, animationState, lastFrameTime, rafQueue, now, canvas,
           playIcon, screen, uploadStatusHidden, presented, uploadsInFlight,
           uploadsIssued, uploadsOverlapped, exportsInFlight, exportsIssued,
           lastMoveTime, out, task >>

\* ------------------------------------------------------------------ Init
Init ==
  /\ kolamData = Null
  /\ animationState = [isPlaying |-> FALSE, currentPathIndex |-> 0,
                       currentPointIndex |-> 0, speed |-> 1,
                       animationId |-> Null]
  /\ lastFrameTime = 0
  /\ rafQueue = {}
  /\ now = 0
  /\ canvas = [dots |-> Null, segments |-> << >>]
  /\ playIcon = PlayGlyph
  /\ screen = "upload"
  /\ uploadStatusHidden = TRUE
  /\ presented = Null
  /\ uploadsInFlight = 0
  /\ uploadsIssued = 0
  /\ uploadsOverlapped = FALSE
  /\ exportsInFlight = << >>
  /\ exportsIssued = 0
  /\ lastMoveTime = -1
  /\ out = << >>
  /\ task = <<"DOMContentLoaded">>

\* --------------------------------------------------- the animation engine
\* The part of the state animate() reads and writes, as one value.
Env == [kd |-> kolamData, as |-> animationState, lft |-> lastFrameTime,
        raf |-> rafQueue, dots |-> canvas.dots, segments |-> canvas.segments,
        icon |-> playIcon, moved |-> lastMoveTime]

\* A handle the browser has not handed out among those still referenced.
FreshHandle(e) ==
  CHOOSE h \in 1..(Cardinality(e.raf) + 2) :
    /\ h \notin e.raf
    /\ h # e.as.animationId
    /\ \A g \in 1..(h - 1) : g \in e.raf \/ g = e.as.animationId

\* animationState.animationId = requestAnimationFrame(animate)
RequestFrame(e) ==
  LET h == FreshHandle(e)
  IN  [e EXCEPT !.raf = @ \cup {h}, !.as.animationId = h]

\* cancelAnimationFrame(animationState.animationId) under its truthiness test
CancelFrame(e) ==
  IF e.as.animationId # Null
  THEN [e EXCEPT !.raf = @ \ {e.as.animationId}]
  ELSE e

ThrottledZeroPasses(timestamp, lft, speed) ==
  IF speed > 0 THEN (timestamp - lft) * speed < frameDelay
  ELSE IF speed < 0 THEN (timestamp - lft) * speed > frameDelay
  ELSE FALSE

\* timestamp - lastFrameTime < frameDelay / animationState.speed
\* (frameDelay / 0 is Infinity; a negative speed gives a negative delay)
Throttled(timestamp, lft, speed) ==
  IF speed > 0 THEN (timestamp - lft) * speed < frameDelay
  ELSE IF speed < 0 THEN (timestamp - lft) * speed > frameDelay
  ELSE TRUE

\* lastFrameTime = timestamp
RecordFrameTimeNever(e, timestamp) == e

RecordFrameTime(e, timestamp) == [e EXCEPT !.lft = timestamp]

\* animationState.currentPointIndex < currentPath.length - 1
HasNextPointShort(cpt, currentPath) == cpt < Len(currentPath) - 2

HasNextPoint(cpt, currentPath) == cpt < Len(currentPath) - 1

CompleteKeepsPlaying(e) == [e EXCEPT !.icon = PlayGlyph]

CompleteKeepsGlyph(e) == [e EXCEPT !.as.isPlaying = FALSE]

\* The "animation complete" branches: isPlaying = false, icon, no reschedule
Complete(e) == [e EXCEPT !.as.isPlaying = FALSE, !.icon = PlayGlyph]

\* Draw the segment from the cursor's point to the next one and step the
\* point cursor.
DrawSegment(e, currentPath, timestamp) ==
  LET cpt == e.as.currentPointIndex
  IN  [e EXCEPT !.segments = Append(@, << currentPath[cpt + 1],
                                          currentPath[cpt + 2] >>),
                !.as.currentPointIndex = cpt + 1,
                !.moved = timestamp]

NextPathStaysOnPath(e, timestamp) ==
  [e EXCEPT !.as.currentPointIndex = 0,
            !.moved = timestamp]

\* Move to the next path.
NextPath(e, timestamp) ==
  [e EXCEPT !.as.currentPathIndex = @ + 1,
            !.as.currentPointIndex = 0,
            !.moved = timestamp]

animate(e, timestamp) ==
  IF ~e.as.isPlaying THEN e
  ELSE IF Throttled(timestamp, e.lft, e.as.speed) THEN RequestFrame(e)
  ELSE
    LET e1 == RecordFrameTime(e, timestamp)
    IN  IF e.kd = Null THEN e1      \* kolamData.paths throws a TypeError
        ELSE
          LET paths == Payloads[e.kd].paths
              cpi   == e.as.currentPathIndex
          IN  IF cpi >= Len(paths) THEN Complete(e1)   \* !currentPath
              ELSE
                LET currentPath == paths[cpi + 1]
                IN  IF HasNextPoint(e.as.currentPointIndex, currentPath)
                    THEN RequestFrame(DrawSegment(e1, currentPath, timestamp))
                    ELSE
                      LET e2 == NextPath(e1, timestamp)
                      IN  IF e2.as.currentPathIndex >= Len(paths)
                          THEN Complete(e2)
                          ELSE RequestFrame(e2)

\* One browser animation frame: every callback pending when the frame starts
\* runs with the frame's timestamp; callbacks requested meanwhile wait for
\* the next frame.
RECURSIVE RunCallbacks(_, _, _)
RunCallbacks(k, e, timestamp) ==
  IF k = 0 THEN e ELSE RunCallbacks(k - 1, animate(e, timestamp), timestamp)

\* Write an Env back to the variables it was read from.
Commit(e) ==
  /\ animationState' = e.as
  /\ lastFrameTime' = e.lft
  /\ rafQueue' = e.raf
  /\ canvas' = [dots |-> e.dots, segments |-> e.segments]
  /\ playIcon' = e.icon
  /\ lastMoveTime' = e.moved

AnimationFrame ==
  /\ task' = <<"animationFrame">>
  /\ rafQueue # {}
  /\ \E dt \in Gaps :
       /\ now + dt <= MaxTime
       /\ now' = now + dt
       /\ Commit(RunCallbacks(Cardinality(rafQueue),
                              [Env EXCEPT !.raf = {}], now + dt))
  /\ out' = << >>
  /\ UNCHANGED << kolamData, screen, uploadStatusHidden, presented,
                  uploadsInFlight, uploadsIssued, uploadsOverlapped, exportsInFlight,
                  exportsIssued >>

\* ------------------------------------------------------ playback controls
togglePlayPause ==
  /\ task' = <<"togglePlayPause">>
  /\ screen = "results"
  /\ LET e0 == [Env EXCEPT !.as.isPlaying = ~animationState.isPlaying]
     IN  IF e0.as.isPlaying
         THEN Commit(animate([e0 EXCEPT !.icon = PauseGlyph], 0))
         ELSE Commit(CancelFrame([e0 EXCEPT !.icon = PlayGlyph]))
  /\ out' = << >>
  /\ UNCHANGED << kolamData, now, screen, uploadStatusHidden, presented,
                  uploadsInFlight, uploadsIssued, uploadsOverlapped, exportsInFlight,
                  exportsIssued >>

initializeCanvasKeepsCursor(e) ==
  [e EXCEPT !.dots = e.kd,
            !.segments = << >>,
            !.as.isPlaying = FALSE,
            !.icon = PlayGlyph]

initializeCanvasKeepsPlaying(e) ==
  [e EXCEPT !.dots = e.kd,
            !.segments = << >>,
            !.as.currentPathIndex = 0,
            !.as.currentPointIndex = 0,
            !.icon = PlayGlyph]

\* initializeCanvas (with drawGridDots): clear the canvas, draw the live
\* record's dots (none without a record), reset the cursors, show the
\* play glyph.  The canvas element exists, so ctx is not null.
initializeCanvas(e) ==
  [e EXCEPT !.dots = e.kd,
            !.segments = << >>,
            !.as.currentPathIndex = 0,
            !.as.currentPointIndex = 0,
            !.as.isPlaying = FALSE,
            !.icon = PlayGlyph]

resetAnimation ==
  /\ task' = <<"resetAnimation">>
  /\ screen = "results"
  /\ LET e0 == CancelFrame(Env)
         e1 == [e0 EXCEPT !.as.isPlaying = FALSE,
                          !.as.currentPathIndex = 0,
                          !.as.currentPointIndex = 0,
                          !.icon = PlayGlyph]
     IN  Commit(initializeCanvas(e1))
  /\ out' = << >>
  /\ UNCHANGED << kolamData, now, screen, uploadStatusHidden, presented,
                  uploadsInFlight, uploadsIssued, uploadsOverlapped, exportsInFlight,
                  exportsIssued >>

\* the speed slider's input listener
setSpeed(value) ==
  /\ task' = <<"speedInput">>
  /\ screen = "results"
  /\ value # animationState.speed
  /\ animationState' = [animationState EXCEPT !.speed = value]
  /\ out' = << >>
  /\ UNCHANGED << kolamData, lastFrameTime, rafQueue, now, canvas, playIcon,
                  screen, uploadStatusHidden, presented, uploadsInFlight,
                  uploadsIssued, uploadsOverlapped, exportsInFlight, exportsIssued,
                  lastMoveTime >>

\* ------------------------------------------------------ upload controller
Files == {"none", "image/png", "text/plain"}   \* type of files[0], if any

handleFileUploadStaysHidden ==
  /\ uploadsInFlight' = uploadsInFlight + 1
  /\ uploadsIssued' = uploadsIssued + 1
  /\ uploadsOverlapped' = (uploadsOverlapped \/ uploadsInFlight > 0)
  /\ out' = << <<"request", "/analyze">> >>
  /\ UNCHANGED << kolamData, animationState, lastFrameTime, rafQueue, now,
                  canvas, playIcon, screen, uploadStatusHidden, presented,
                  exportsInFlight, exportsIssued, lastMoveTime >>

\* handleFileUpload up to its first await: show the busy indicator and
\* issue the request.
handleFileUpload ==
  /\ uploadStatusHidden' = FALSE
  /\ uploadsInFlight' = uploadsInFlight + 1
  /\ uploadsIssued' = uploadsIssued + 1
  /\ uploadsOverlapped' = (uploadsOverlapped \/ uploadsInFlight > 0)
  /\ out' = << <<"request", "/analyze">> >>
  /\ UNCHANGED << kolamData, animationState, lastFrameTime, rafQueue, now,
                  canvas, playIcon, screen, presented, exportsInFlight,
                  exportsIssued, lastMoveTime >>

Ignored ==
  /\ out' = << >>
  /\ UNCHANGED << kolamData, animationState, lastFrameTime, rafQueue, now,
                  canvas, playIcon, screen, uploadStatusHidden, presented,
                  uploadsInFlight, uploadsIssued, uploadsOverlapped, exportsInFlight,
                  exportsIssued, lastMoveTime >>

DropAnyFile(file) ==
  /\ task' = <<"drop", file>>
  /\ screen = "upload"
  /\ uploadsIssued < MaxUploads
  /\ IF file # "none" THEN handleFileUpload ELSE Ignored

\* the upload area's drop listener
Drop(file) ==
  /\ task' = <<"drop", file>>
  /\ screen = "upload"
  /\ uploadsIssued < MaxUploads
  /\ IF file # "none" /\ SubSeq(file, 1, 6) = "image/"
     THEN handleFileUpload
     ELSE Ignored

\* the file input's change listener
FileInputChange(file) ==
  /\ task' = <<"change", file>>
  /\ screen = "upload"
  /\ uploadsIssued < MaxUploads
  /\ IF file # "none" THEN handleFileUpload ELSE Ignored

displayResultsOfOldRecord ==
  /\ screen' = "results"
  /\ presented' = kolamData
  /\ Commit(initializeCanvas([Env EXCEPT !.kd = kolamData']))

\* displayResults: switch screens, fill the fields, initializeCanvas
displayResults ==
  /\ screen' = "results"
  /\ presented' = kolamData'
  /\ Commit(initializeCanvas([Env EXCEPT !.kd = kolamData']))

\* handleFileUpload after its awaits: result.success
UploadSucceeds(data) ==
  /\ task' = <<"uploadResponse", "success">>
  /\ uploadsInFlight > 0
  /\ uploadsInFlight' = uploadsInFlight - 1
  /\ uploadsOverlapped' = (uploadsOverlapped /\ uploadsInFlight > 1)
  /\ kolamData' = data
  /\ displayResults
  /\ out' = << >>
  /\ UNCHANGED << now, uploadStatusHidden, uploadsIssued, exportsInFlight,
                  exportsIssued >>

UploadFailsClearsRecord(error) ==
  /\ task' = <<"uploadResponse", "failure">>
  /\ uploadsInFlight > 0
  /\ uploadsInFlight' = uploadsInFlight - 1
  /\ uploadsOverlapped' = (uploadsOverlapped /\ uploadsInFlight > 1)
  /\ out' = << <<"alert", "Error analyzing image: ", error>> >>
  /\ uploadStatusHidden' = TRUE
  /\ kolamData' = Null
  /\ UNCHANGED << animationState, lastFrameTime, rafQueue, now,
                  canvas, playIcon, screen, presented, uploadsIssued,
                  exportsInFlight, exportsIssued, lastMoveTime >>

\* handleFileUpload after its awaits: success false, with result.error
UploadFails(error) ==
  /\ task' = <<"uploadResponse", "failure">>
  /\ uploadsInFlight > 0
  /\ uploadsInFlight' = uploadsInFlight - 1
  /\ uploadsOverlapped' = (uploadsOverlapped /\ uploadsInFlight > 1)
  /\ out' = << <<"alert", "Error analyzing image: ", error>> >>
  /\ uploadStatusHidden' = TRUE
  /\ UNCHANGED << kolamData, animationState, lastFrameTime, rafQueue, now,
                  canvas, playIcon, screen, presented, uploadsIssued,
                  exportsInFlight, exportsIssued, lastMoveTime >>

\* handleFileUpload's catch: fetch rejected or the body is not JSON
UploadTransportError ==
  /\ task' = <<"uploadResponse", "transport">>
  /\ uploadsInFlight > 0
  /\ uploadsInFlight' = uploadsInFlight - 1
  /\ uploadsOverlapped' = (uploadsOverlapped /\ uploadsInFlight > 1)
  /\ out' = << <<"alert", "Failed to connect to server", "">> >>
  /\ uploadStatusHidden' = TRUE
  /\ UNCHANGED << kolamData, animationState, lastFrameTime, rafQueue, now,
                  canvas, playIcon, screen, presented, uploadsIssued,
                  exportsInFlight, exportsIssued, lastMoveTime >>

resetAppKeepsPlaying ==
  /\ task' = <<"resetApp">>
  /\ screen = "results"
  /\ LET e0 == CancelFrame(Env)
     IN  /\ animationState' = [e0.as EXCEPT !.currentPathIndex = 0,
                                            !.currentPointIndex = 0]
         /\ rafQueue' = e0.raf
  /\ kolamData' = Null
  /\ screen' = "upload"
  /\ uploadStatusHidden' = TRUE
  /\ out' = << >>
  /\ UNCHANGED << lastFrameTime, now, canvas, playIcon, presented,
                  uploadsInFlight, uploadsIssued, uploadsOverlapped, exportsInFlight,
                  exportsIssued, lastMoveTime >>

resetApp ==
  /\ task' = <<"resetApp">>
  /\ screen = "results"
  /\ LET e0 == CancelFrame(Env)
     IN  /\ animationState' = [e0.as EXCEPT !.isPlaying = FALSE,
                                            !.currentPathIndex = 0,
                                            !.currentPointIndex = 0]
         /\ rafQueue' = e0.raf
  /\ kolamData' = Null
  /\ screen' = "upload"
  /\ uploadStatusHidden' = TRUE
  /\ out' = << >>
  /\ UNCHANGED << lastFrameTime, now, canvas, playIcon, presented,
                  uploadsInFlight, uploadsIssued, uploadsOverlapped, exportsInFlight,
                  exportsIssued, lastMoveTime >>

\* ---------------------------------------------------------- export actions
RemoveAt(s, i) == SubSeq(s, 1, i - 1) \o SubSeq(s, i + 1, Len(s))

\* exportSVG up to its first await
exportSVG ==
  /\ task' = <<"exportSVG">>
  /\ exportsIssued < MaxExports
  /\ IF kolamData = Null
     THEN /\ out' = << >>
          /\ UNCHANGED << exportsInFlight, exportsIssued >>
     ELSE /\ exportsInFlight' = Append(exportsInFlight, kolamData)
          /\ exportsIssued' = exportsIssued + 1
          /\ out' = << <<"request", "/export-svg">> >>
  /\ UNCHANGED << kolamData, animationState, lastFrameTime, rafQueue, now,
                  canvas, playIcon, screen, uploadStatusHidden, presented,
                  uploadsInFlight, uploadsIssued, uploadsOverlapped, lastMoveTime >>

ExportUnchanged ==
  UNCHANGED << kolamData, animationState, lastFrameTime, rafQueue, now,
               canvas, playIcon, screen, uploadStatusHidden, presented,
               uploadsInFlight, uploadsIssued, uploadsOverlapped, exportsIssued, lastMoveTime >>

\* exportSVG after its awaits: result.success.  The file name reads the
\* record live at that moment; without one, kolamData.id throws inside the
\* try block before the anchor is clicked.
ExportSucceeds(i) ==
  /\ task' = <<"exportResponse", "success">>
  /\ i \in 1..Len(exportsInFlight)
  /\ exportsInFlight' = RemoveAt(exportsInFlight, i)
  /\ out' = IF kolamData # Null
            THEN << <<"download", "kolam_", Payloads[kolamData].id, ".svg",
                      exportsInFlight[i]>>,
                    <<"alert", "SVG exported successfully!", "">> >>
            ELSE << <<"alert", "Failed to export SVG", "">> >>
  /\ ExportUnchanged

ExportFailsDownloads(i, error) ==
  /\ task' = <<"exportResponse", "failure">>
  /\ i \in 1..Len(exportsInFlight)
  /\ exportsInFlight' = RemoveAt(exportsInFlight, i)
  /\ out' = << <<"download", "kolam_", Payloads[exportsInFlight[i]].id,
                 ".svg", exportsInFlight[i]>>,
               <<"alert", "Export failed: ", error>> >>
  /\ ExportUnchanged

\* exportSVG after its awaits: success false, with result.error
ExportFails(i, error) ==
  /\ task' = <<"exportResponse", "failure">>
  /\ i \in 1..Len(exportsInFlight)
  /\ exportsInFlight' = RemoveAt(exportsInFlight, i)
  /\ out' = << <<"alert", "Export failed: ", error>> >>
  /\ ExportUnchanged

\* exportSVG's catch: fetch rejected or the body is not JSON
ExportTransportError(i) ==
  /\ task' = <<"exportResponse", "transport">>
  /\ i \in 1..Len(exportsInFlight)
  /\ exportsInFlight' = RemoveAt(exportsInFlight, i)
  /\ out' = << <<"alert", "Failed to export SVG", "">> >>
  /\ ExportUnchanged

saveEquationSvgName ==
  /\ task' = <<"saveEquation">>
  /\ out' = IF kolamData = Null THEN << >>
            ELSE << <<"download", "kolam_", Payloads[kolamData].id,
                      ".svg", kolamData>>,
                    <<"alert", "Equation file saved successfully!", "">> >>
  /\ UNCHANGED << kolamData, animationState, lastFrameTime, rafQueue, now,
                  canvas, playIcon, screen, uploadStatusHidden, presented,
                  uploadsInFlight, uploadsIssued, uploadsOverlapped,
                  exportsInFlight, exportsIssued, lastMoveTime >>

\* saveEquation: without a record return; otherwise download the text file
\* and confirm
saveEquation ==
  /\ task' = <<"saveEquation">>
  /\ out' = IF kolamData = Null THEN << >>
            ELSE << <<"download", "kolam_equations_", Payloads[kolamData].id,
                      ".txt", kolamData>>,
                    <<"alert", "Equation file saved successfully!", "">> >>
  /\ UNCHANGED << kolamData, animationState, lastFrameTime, rafQueue, now,
                  canvas, playIcon, screen, uploadStatusHidden, presented,
                  uploadsInFlight, uploadsIssued, uploadsOverlapped, exportsInFlight,
                  exportsIssued, lastMoveTime >>

\* ------------------------------------------------------- specifications
\* Upload controller, playback controls and animation loop.
Next ==
  \/ AnimationFrame
  \/ togglePlayPause
  \/ resetAnimation
  \/ \E value \in Speeds : setSpeed(value)
  \/ \E file \in Files : Drop(file)
  \/ \E file \in Files : FileInputChange(file)
  \/ \E data \in DataIds : UploadSucceeds(data)
  \/ \E error \in ErrorMessages : UploadFails(error)
  \/ UploadTransportError
  \/ resetApp

Spec == Init /\ [][Next]_vars

\* The export actions interleaved with everything above at the initial
\* speed.
NextExport ==
  \/ AnimationFrame
  \/ togglePlayPause
  \/ resetAnimation
  \/ \E file \in Files : Drop(file)
  \/ \E file \in Files : FileInputChange(file)
  \/ \E data \in DataIds : UploadSucceeds(data)
  \/ \E error \in ErrorMessages : UploadFails(error)
  \/ UploadTransportError
  \/ resetApp
  \/ exportSVG
  \/ \E i \in 1..MaxExports : ExportSucceeds(i)
  \/ \E i \in 1..MaxExports, error \in ErrorMessages : ExportFails(i, error)
  \/ \E i \in 1..MaxExports : ExportTransportError(i)
  \/ saveEquation

SpecExport == Init /\ [][NextExport]_vars

\* ------------------------------------------- a slider without bounds
\* parseFloat(e.target.value) is stored as it comes: nothing in the script
\* keeps the speed positive.
AnySpeeds == {-1, 0, 1, 2}

NextAnySpeed ==
  \/ AnimationFrame
  \/ togglePlayPause
  \/ resetAnimation
  \/ \E value \in AnySpeeds : setSpeed(value)
  \/ \E file \in Files : uploadsIssued < MaxLiveUploads /\ Drop(file)
  \/ \E file \in Files :
        uploadsIssued < MaxLiveUploads /\ FileInputChange(file)
  \/ \E data \in DataIds : UploadSucceeds(data)
  \/ \E error \in ErrorMessages : UploadFails(error)
  \/ UploadTransportError
  \/ resetApp

SpecAnySpeed == Init /\ [][NextAnySpeed]_vars

\* ------------------------------------------------- frames without end
\* animate reads the timestamp only in timestamp - lastFrameTime, and with
\* a speed of at least 1 only asks whether that difference is below
\* frameDelay / speed <= frameDelay.  For behaviours in which frames never
\* stop, the clock is therefore moved back by Rebase before each frame:
\* the difference is kept, or kept at frameDelay when it was larger, so the
\* frame is throttled or accepted exactly as with the unshifted timestamp.
Min(a, b) == IF a < b THEN a ELSE b

Rebase == now - Min(now - lastFrameTime, frameDelay)

Shifted(t) == IF t < 0 THEN t ELSE IF t < Rebase THEN 0 ELSE t - Rebase

AnimationFrameLive ==
  /\ task' = <<"animationFrame">>
  /\ rafQueue # {}
  /\ \E dt \in Gaps :
       /\ now' = Shifted(now) + dt
       /\ \E e \in { RunCallbacks(Cardinality(rafQueue),
                                   [Env EXCEPT !.raf = {},
                                               !.lft = Shifted(lastFrameTime),
                                               !.moved = Shifted(lastMoveTime)],
                                   Shifted(now) + dt) } : Commit(e)
  /\ out' = << >>
  /\ UNCHANGED << kolamData, screen, uploadStatusHidden, presented,
                  uploadsInFlight, uploadsIssued, uploadsOverlapped,
                  exportsInFlight, exportsIssued >>

NextLive ==
  \/ AnimationFrameLive
  \/ togglePlayPause
  \/ resetAnimation
  \/ \E value \in Speeds : setSpeed(value)
  \/ \E file \in Files : uploadsIssued < MaxLiveUploads /\ Drop(file)
  \/ \E file \in Files :
        uploadsIssued < MaxLiveUploads /\ FileInputChange(file)
  \/ \E data \in DataIds : UploadSucceeds(data)
  \/ \E error \in ErrorMessages : UploadFails(error)
  \/ UploadTransportError
  \/ resetApp

\* the browser runs a pending requestAnimationFrame callback in the end
SpecLive == Init /\ [][NextLive]_vars /\ WF_vars(AnimationFrameLive)

\* ------------------------------------------------------------ properties
Playing == animationState.isPlaying
cpi == animationState.currentPathIndex
cpt == animationState.currentPointIndex
LivePaths == Payloads[kolamData].paths

Max(a, b) == IF a > b THEN a ELSE b

\* The first n segments of a path, in order.
PathSegments(path, n) == [i \in 1..n |-> << path[i], path[i + 1] >>]

\* Every segment of the first k paths, path after path.
RECURSIVE SegmentsOfPaths(_, _)
SegmentsOfPaths(paths, k) ==
  IF k = 0 THEN << >>
  ELSE SegmentsOfPaths(paths, k - 1)
         \o PathSegments(paths[k], Max(Len(paths[k]) - 1, 0))

\* What a playback that has reached cursor (i, j) must have drawn.
SegmentsUpTo(paths, i, j) ==
  SegmentsOfPaths(paths, i)
    \o (IF i < Len(paths) THEN PathSegments(paths[i + 1], j) ELSE << >>)

\* sum over the paths of max(length - 1, 0)
RECURSIVE TotalSegments(_)
TotalSegments(paths) ==
  IF paths = << >> THEN 0
  ELSE Max(Len(Head(paths)) - 1, 0) + TotalSegments(Tail(paths))

\* The first path with at least 2 points (0 if there is none).
FirstDrawablePath(paths) ==
  IF \E k \in 1..Len(paths) : Len(paths[k]) >= 2
  THEN CHOOSE k \in 1..Len(paths) :
         /\ Len(paths[k]) >= 2
         /\ \A g \in 1..(k - 1) : Len(paths[g]) < 2
  ELSE 0

\* C1: at most one animation frame callback is pending, and while
\* isPlaying is true the pending callback is the one whose handle is
\* stored in animationState.animationId.
C1_SinglePendingFrame ==
  /\ Cardinality(rafQueue) <= 1
  /\ Playing => rafQueue \subseteq {animationState.animationId}

\* C2: resetAnimation leaves no frame callback pending, sets isPlaying to
\* false and both cursors to 0; while not playing nothing is drawn; and the
\* first segment drawn on the cleared canvas is the one from point 0 to
\* point 1 of the first path with at least 2 points.
C2_ResetCancelsAndRewinds ==
  [][ /\ task' = <<"resetAnimation">> =>
           /\ rafQueue' = {}
           /\ ~Playing'
           /\ cpi' = 0 /\ cpt' = 0
      /\ (~Playing /\ task' # <<"togglePlayPause">>) =>
           (canvas'.segments = canvas.segments \/ canvas'.segments = << >>)
      /\ (kolamData # Null /\ canvas.segments = << >>
            /\ canvas'.segments # << >>) =>
           LET k == FirstDrawablePath(LivePaths)
           IN  /\ k # 0
               /\ Head(canvas'.segments)
                    = << LivePaths[k][1], LivePaths[k][2] >> ]_vars

\* C3: the canvas always holds exactly the segments a playback from (0,0)
\* to the cursor passes, each once and in order; a path with fewer than 2
\* points is passed by one accepted frame without drawing; when the loop
\* ends the playback currentPathIndex = paths.length, every segment
\* (sum of max(length - 1, 0) of them) is drawn, isPlaying is false and the
\* indicator shows the play glyph.
C3_PlaybackDrawsEverySegmentOnce ==
  /\ [](kolamData # Null =>
          canvas.segments = SegmentsUpTo(LivePaths, cpi, cpt))
  /\ [][ /\ (task' = <<"animationFrame">> /\ Playing /\ ~Playing') =>
             /\ cpi' = Len(LivePaths)
             /\ Len(canvas'.segments) = TotalSegments(LivePaths)
             /\ playIcon' = PlayGlyph
        /\ (task' = <<"animationFrame">> /\ Playing
              /\ Cardinality(rafQueue) = 1
              /\ ~Throttled(now', lastFrameTime, animationState.speed)
              /\ cpi < Len(LivePaths) /\ Len(LivePaths[cpi + 1]) < 2) =>
             /\ cpi' = cpi + 1 /\ cpt' = 0
             /\ canvas'.segments = canvas.segments ]_vars

\* the spec's example record, played to the end
C3_Witness ==
  /\ kolamData = 1
  /\ cpi = 2
  /\ ~Playing
  /\ playIcon = PlayGlyph
  /\ canvas.segments = << << <<0, 0>>, <<10, 0>> >> >>
  /\ lastMoveTime = now

\* C4 as stated: with a live record 0 <= currentPathIndex <= paths.length
\* and, below paths.length, 0 <= currentPointIndex <= length - 1 of the
\* current path.
C4_CursorWithinPath ==
  kolamData # Null =>
    /\ 0 <= cpi /\ cpi <= Len(LivePaths)
    /\ cpi < Len(LivePaths) =>
         (0 <= cpt /\ cpt <= Len(LivePaths[cpi + 1]) - 1)

\* C4 amended: the upper bound of currentPointIndex is
\* max(length - 1, 0): on a path without points the cursor rests at 0.
C4_CursorWithinPathOrZero ==
  kolamData # Null =>
    /\ 0 <= cpi /\ cpi <= Len(LivePaths)
    /\ cpi < Len(LivePaths) =>
         (0 <= cpt /\ cpt <= Max(Len(LivePaths[cpi + 1]) - 1, 0))

\* a replaced record with the cursor resting on a path without points
C4_Witness ==
  /\ kolamData # Null
  /\ uploadsIssued = 2 /\ uploadsInFlight = 0
  /\ cpi < Len(LivePaths)
  /\ Len(LivePaths[cpi + 1]) = 0
  /\ cpt = 0

\* the task accepted a file: a change event with a file, or a drop whose
\* first file is image-typed
AcceptsFile(t) ==
  /\ Len(t) = 2
  /\ \/ t[1] = "change" /\ t[2] # "none"
     \/ t[1] = "drop" /\ t[2] = "image/png"

UploadFailure(t) ==
  Len(t) = 2 /\ t[1] = "uploadResponse" /\ t[2] # "success"

\* C5 as stated: every accepted file issues exactly one POST /analyze, and
\* the busy indicator is shown whenever an upload request is in flight.
C5_BusyUntilOwnResponse ==
  [][ /\ AcceptsFile(task') =>
           /\ out' = << <<"request", "/analyze">> >>
           /\ uploadsInFlight' = uploadsInFlight + 1
      /\ uploadsInFlight' > 0 => ~uploadStatusHidden' ]_vars

\* C5 amended: every accepted file issues exactly one POST /analyze, and
\* the busy indicator is shown whenever an upload request is in flight
\* and none of the requests in flight has overlapped another upload.
C5_BusyUntilOwnResponseUnlessOverlapped ==
  [][ /\ AcceptsFile(task') =>
           /\ out' = << <<"request", "/analyze">> >>
           /\ uploadsInFlight' = uploadsInFlight + 1
      /\ (uploadsInFlight' > 0 /\ ~uploadsOverlapped') =>
           ~uploadStatusHidden' ]_vars

\* a second upload, alone in flight, after the first one failed and hid
\* the indicator
C5_Witness ==
  /\ AcceptsFile(task)
  /\ uploadsIssued = 2
  /\ uploadsInFlight = 1
  /\ ~uploadsOverlapped
  /\ ~uploadStatusHidden
  /\ kolamData = Null

\* C6: a failed upload response (application-level or transport) leaves the
\* record, the animation state, the canvas, the pending frames and the
\* screen as they were; it emits exactly one alert, hides the busy
\* indicator and issues no request.  A record is stored only by a
\* response that reports success.
C6_FailedUploadChangesNothing ==
  [][ /\ UploadFailure(task') =>
           /\ kolamData' = kolamData
           /\ animationState' = animationState
           /\ rafQueue' = rafQueue
           /\ lastFrameTime' = lastFrameTime
           /\ canvas' = canvas
           /\ playIcon' = playIcon
           /\ screen' = screen
           /\ presented' = presented
           /\ Len(out') = 1 /\ out'[1][1] = "alert"
           /\ uploadStatusHidden'
           /\ uploadsIssued' = uploadsIssued
           /\ uploadsInFlight' = uploadsInFlight - 1
      /\ (kolamData' # kolamData /\ kolamData' # Null) =>
           task' = <<"uploadResponse", "success">> ]_vars

\* a failure response handled while a record is live and being played
C6_Witness ==
  /\ UploadFailure(task)
  /\ kolamData # Null
  /\ screen = "results"
  /\ Playing
  /\ cpt > 0
  /\ uploadStatusHidden

\* C7: a pause toggle sets isPlaying to false and leaves no frame callback
\* pending; while paused no task but a reset, a new record or the play
\* toggle moves a cursor or draws; the play toggle resumes at the cursor
\* held at the pause.
C7_PauseFreezesPlayback ==
  [][ /\ (task' = <<"togglePlayPause">> /\ Playing) =>
           /\ ~Playing'
           /\ rafQueue' = {}
           /\ cpi' = cpi /\ cpt' = cpt
           /\ canvas' = canvas
      /\ (~Playing /\ task' \in { <<"animationFrame">>, <<"speedInput">>,
                                   <<"uploadResponse", "failure">>,
                                   <<"uploadResponse", "transport">> }) =>
           /\ ~Playing'
           /\ cpi' = cpi /\ cpt' = cpt
           /\ canvas' = canvas
      /\ (task' = <<"togglePlayPause">> /\ ~Playing) =>
           /\ cpi' = cpi /\ cpt' = cpt
           /\ canvas' = canvas
      /\ (task' = <<"animationFrame">> /\ kolamData # Null
            /\ canvas'.segments # canvas.segments) =>
           /\ canvas.segments = SegmentsUpTo(LivePaths, cpi, cpt)
           /\ canvas'.segments = SegmentsUpTo(LivePaths, cpi', cpt')
           /\ Len(canvas'.segments) = Len(canvas.segments) + 1 ]_vars

\* C8: a successful upload response stores its record and discards the
\* animation state: both cursors 0, isPlaying false, the play glyph, a
\* cleared canvas with the new record's dots; afterwards a segment is drawn
\* only while playing, and it is the new record's segment at the cursor.
C8_NewRecordDiscardsAnimation ==
  [][ /\ task' = <<"uploadResponse", "success">> =>
           /\ kolamData' # Null
           /\ cpi' = 0 /\ cpt' = 0
           /\ ~Playing'
           /\ playIcon' = PlayGlyph
           /\ canvas' = [dots |-> kolamData', segments |-> << >>]
      /\ (canvas'.segments # canvas.segments /\ canvas'.segments # << >>) =>
           /\ Playing
           /\ kolamData # Null /\ kolamData' = kolamData
           /\ canvas.dots = kolamData
           /\ cpi < Len(LivePaths)
           /\ canvas'.segments =
                Append(canvas.segments, << LivePaths[cpi + 1][cpt + 1],
                                           LivePaths[cpi + 1][cpt + 2] >>) ]_vars

\* a record replaced in mid-playback, the frame requested for the old one
\* still pending
C8_Witness ==
  /\ task = <<"uploadResponse", "success">>
  /\ uploadsIssued = 2 /\ uploadsInFlight = 0
  /\ rafQueue # {}
  /\ lastMoveTime >= 0
  /\ ~Playing
  /\ cpi = 0 /\ cpt = 0

\* C9: two consecutive frames that draw or advance a cursor have timestamps
\* at least frameDelay / speed apart, for the speed in force at the later
\* one; a frame arriving sooner is rescheduled and neither draws nor moves
\* a cursor.
C9_ThrottleInterval ==
  [][ /\ (lastMoveTime' # lastMoveTime /\ lastMoveTime >= 0) =>
           (lastMoveTime' - lastMoveTime) * animationState.speed
             >= frameDelay
      /\ (task' = <<"animationFrame">> /\ Playing /\ lastMoveTime >= 0
            /\ (now' - lastMoveTime) * animationState.speed < frameDelay) =>
           /\ cpi' = cpi /\ cpt' = cpt
           /\ canvas' = canvas
           /\ Playing'
           /\ rafQueue' # {} ]_vars

\* at speed 2 the third record drawn up to its last segment by timestamp
\* 75: frames accepted at 25, 50 and 75
C9_Witness ==
  /\ animationState.speed = 2
  /\ kolamData = 3
  /\ cpi = 1 /\ cpt = 2
  /\ lastMoveTime = 75
  /\ now = 75

ExportFailure(t) ==
  Len(t) = 2 /\ t[1] = "exportResponse" /\ t[2] # "success"

\* C10: a failed SVG export response (application-level or transport)
\* emits exactly one alert, with the server's message in the
\* application-level case, and no download; it issues no request and
\* leaves the record, the animation state, the canvas and the screen
\* unchanged.
C10_FailedExportOnlyNotifies ==
  [][ ExportFailure(task') =>
        /\ Len(out') = 1
        /\ out'[1][1] = "alert"
        /\ task'[2] = "failure" =>
             (out'[1][2] = "Export failed: " /\ out'[1][3] \in ErrorMessages)
        /\ Len(exportsInFlight') = Len(exportsInFlight) - 1
        /\ exportsIssued' = exportsIssued
        /\ uploadsIssued' = uploadsIssued
        /\ kolamData' = kolamData
        /\ animationState' = animationState
        /\ rafQueue' = rafQueue
        /\ lastFrameTime' = lastFrameTime
        /\ canvas' = canvas
        /\ playIcon' = playIcon
        /\ screen' = screen ]_vars

\* the application-level failure handled while the record is being played
C10_Witness ==
  /\ task = <<"exportResponse", "failure">>
  /\ out = << <<"alert", "Export failed: ", "bad input">> >>
  /\ kolamData # Null
  /\ Playing
  /\ cpt > 0

\* the state an export or a rejected drop must leave alone
RecordAndAnimationUnchanged ==
  /\ kolamData' = kolamData
  /\ animationState' = animationState
  /\ rafQueue' = rafQueue
  /\ lastFrameTime' = lastFrameTime
  /\ canvas' = canvas
  /\ playIcon' = playIcon
  /\ screen' = screen
  /\ presented' = presented

\* C11: a drop whose first file is absent or not image-typed issues no
\* request, leaves the busy indicator as it was (hidden stays hidden) and
\* leaves the record and the animation state unchanged.
C11_RejectedDropDoesNothing ==
  [][ (Len(task') = 2 /\ task'[1] = "drop" /\ task'[2] # "image/png") =>
        /\ out' = << >>
        /\ uploadsInFlight' = uploadsInFlight
        /\ uploadsIssued' = uploadsIssued
        /\ uploadStatusHidden' = uploadStatusHidden
        /\ RecordAndAnimationUnchanged ]_vars

\* a text file dropped with nothing in flight: the indicator is hidden
C11_Witness ==
  /\ task = <<"drop", "text/plain">>
  /\ uploadsInFlight = 0
  /\ uploadStatusHidden
  /\ out = << >>

\* C12: saveEquation with a live record issues no request, emits exactly
\* one download, named kolam_equations_<id>.txt for the live record's id,
\* and leaves the record and the animation state unchanged; saveEquation
\* and exportSVG without a live record emit nothing at all.
C12_EquationExportIsLocal ==
  [][ /\ (task' = <<"saveEquation">> /\ kolamData # Null) =>
           /\ Len(out') = 2
           /\ out'[1] = <<"download", "kolam_equations_",
                          Payloads[kolamData].id, ".txt", kolamData>>
           /\ out'[2][1] = "alert"
           /\ exportsInFlight' = exportsInFlight
           /\ exportsIssued' = exportsIssued
           /\ uploadsInFlight' = uploadsInFlight
           /\ uploadsIssued' = uploadsIssued
           /\ RecordAndAnimationUnchanged
      /\ (task' \in { <<"saveEquation">>, <<"exportSVG">> }
            /\ kolamData = Null) =>
           /\ out' = << >>
           /\ exportsInFlight' = exportsInFlight
           /\ exportsIssued' = exportsIssued
           /\ RecordAndAnimationUnchanged ]_vars

\* the equations of the spec's example record saved in mid-playback
C12_Witness ==
  /\ task = <<"saveEquation">>
  /\ kolamData = 1
  /\ out[1] = <<"download", "kolam_equations_", "abc123", ".txt", 1>>
  /\ Playing
  /\ cpt > 0

\* C13: with a positive speed and frames that keep firing, playback that
\* has been started stops; unless a pause, a reset, an app reset or an
\* upload response stopped it, it stops in a frame callback, and then
\* currentPathIndex = paths.length, isPlaying is false and no frame is
\* left scheduled.
C13_PlaybackCompletes ==
  /\ Playing ~> ~Playing
  /\ [][ (Playing /\ ~Playing' /\ task' = <<"animationFrame">>) =>
           /\ kolamData' # Null
           /\ cpi' = Len(Payloads[kolamData'].paths)
           /\ rafQueue' = {} ]_vars
  /\ [][ (~Playing /\ task' = <<"animationFrame">>) =>
           ~Playing' /\ rafQueue' = {} ]_vars

\* playback of the record with an empty first path has run to its end
C13_Witness ==
  /\ task = <<"animationFrame">>
  /\ kolamData = 3
  /\ ~Playing
  /\ cpi = Len(LivePaths)
  /\ rafQueue = {}
  /\ Len(canvas.segments) = 2
  /\ lastFrameTime = now

\* a step in which animate runs while isPlaying is true: a frame callback
\* during playback, or the play toggle's own call animate(0)
AnimateRuns ==
  \/ task' = <<"animationFrame">> /\ Playing
  \/ task' = <<"togglePlayPause">> /\ ~Playing

PlaybackStalled ==
  /\ cpi' = cpi
  /\ cpt' = cpt
  /\ canvas' = canvas
  /\ lastFrameTime' = lastFrameTime

\* C14 (as stated): with a speed that is zero or negative, no run of
\* animate accepts a frame: no segment is drawn, neither cursor moves.
C14_NonPositiveSpeedStalls ==
  [][ (AnimateRuns /\ animationState.speed <= 0) => PlaybackStalled ]_vars

\* C14 (amended): with speed zero no run of animate accepts a frame, no
\* segment is drawn and neither cursor moves; with a negative speed every
\* frame callback that runs during playback is accepted.
C14_ZeroSpeedStalls ==
  [][ /\ (AnimateRuns /\ animationState.speed = 0) =>
           PlaybackStalled /\ Playing' /\ rafQueue' # {}
      /\ (task' = <<"animationFrame">> /\ Playing /\ kolamData # Null
            /\ animationState.speed < 0) =>
           lastFrameTime' = now' ]_vars

\* four or more frames have fired at speed zero and nothing has moved
C14_Witness ==
  /\ task = <<"animationFrame">>
  /\ animationState.speed = 0
  /\ Playing
  /\ rafQueue # {}
  /\ now - lastFrameTime >= 2 * frameDelay
  /\ kolamData = 1
  /\ cpi = 0 /\ cpt = 0
  /\ canvas.segments = << >>

\* C15: every successful export response yields a download of the returned
\* SVG named kolam_<id>.svg for the id of the record that was sent in that
\* request, whatever has happened to the live record in the meantime.
C15_DownloadNamedBySentRecord ==
  [][ task' = <<"exportResponse", "success">> =>
        \E i \in 1..Len(exportsInFlight) :
          /\ exportsInFlight' = RemoveAt(exportsInFlight, i)
          /\ out'[1] = <<"download", "kolam_",
                         Payloads[exportsInFlight[i]].id, ".svg",
                         exportsInFlight[i]>> ]_vars

\* C16: whenever a record is live, the presented fields and the drawn grid
\* dots are those of the live record; each successful upload response
\* stores its data before presenting it, so after it the live record,
\* the fields and the dots are all that response's data, whichever
\* response was handled before.
C16_StoreBeforePresent ==
  /\ [](kolamData # Null =>
          presented = kolamData /\ canvas.dots = kolamData)
  /\ [][ \A data \in DataIds :
           UploadSucceeds(data) =>
             /\ kolamData' = data
             /\ presented' = data
             /\ canvas'.dots = data
             /\ canvas'.segments = << >> ]_vars

\* the second of two uploads has replaced a record that had been animated
C16_Witness ==
  /\ task = <<"uploadResponse", "success">>
  /\ uploadsIssued = 2 /\ uploadsInFlight = 0
  /\ kolamData = 3
  /\ presented = 3 /\ canvas.dots = 3
  /\ canvas.segments = << >>
  /\ lastMoveTime >= 0
  /\ screen = "results"

\* the animation has passed the last path of the live record
InComplete == kolamData # Null /\ cpi = Len(LivePaths)

\* C17: in Complete no play toggle and no frame callback draws a segment or
\* moves a cursor; a frame accepted there during playback ends it with
\* isPlaying false, the paused glyph and nothing pending; a step that does
\* change a cursor or the drawing is a resetAnimation, a resetApp or a
\* successful upload response, and leaves the cursors at (0, 0).
C17_CompleteIsAbsorbing ==
  [][ /\ (InComplete /\ (cpi' # cpi \/ cpt' # cpt \/ canvas' # canvas)) =>
           /\ task' \in { <<"resetAnimation">>, <<"resetApp">>,
                           <<"uploadResponse", "success">> }
           /\ cpi' = 0 /\ cpt' = 0
      /\ (InComplete /\ task' = <<"togglePlayPause">> /\ ~Playing) =>
           Playing' /\ rafQueue' # {} /\ lastFrameTime' = lastFrameTime
      /\ (InComplete /\ Playing /\ task' = <<"animationFrame">>
            /\ lastFrameTime' = now') =>
           ~Playing' /\ playIcon' = PlayGlyph /\ rafQueue' = {} ]_vars

\* a play toggle after the end of playback has been answered by an accepted
\* frame: playback is over again and the drawing is as it was
C17_Witness ==
  /\ task = <<"animationFrame">>
  /\ kolamData = 1
  /\ InComplete
  /\ ~Playing
  /\ playIcon = PlayGlyph
  /\ rafQueue = {}
  /\ lastFrameTime = now
  /\ lastMoveTime >= 0 /\ lastMoveTime < now
  /\ Len(canvas.segments) = 1

\* C18: the results screen is active only with a live record, isPlaying is
\* true only with a live record, and a frame callback that runs without a
\* live record returns at the isPlaying test: it reads no paths, records no
\* frame time and requests no frame.
C18_NoFrameReadsNullRecord ==
  /\ []((screen = "results" => kolamData # Null)
        /\ (Playing => kolamData # Null))
  /\ [][ (task' = <<"animationFrame">> /\ kolamData = Null) =>
           /\ animationState' = animationState
           /\ lastFrameTime' = lastFrameTime
           /\ canvas' = canvas
           /\ rafQueue' = {} ]_vars

\* a frame left pending across resetApp has fired without a record
C18_Witness ==
  /\ task = <<"animationFrame">>
  /\ kolamData = Null
  /\ screen = "upload"
  /\ rafQueue = {}
  /\ ~Playing

\* C19: while the results screen is active the indicator shows the pause
\* glyph exactly when isPlaying is true.
C19_GlyphTracksPlaying ==
  screen = "results" => (playIcon = PauseGlyph <=> Playing)

\* playback of a second record, uploaded after resetApp or over the first
C19_Witness ==
  /\ task = <<"animationFrame">>
  /\ screen = "results"
  /\ uploadsIssued = 2 /\ uploadsInFlight = 0
  /\ Playing
  /\ playIcon = PauseGlyph
  /\ cpt > 0
====
